---- MODULE Spec2Model ----
(***************************************************************************)
(* translog: a log line is matched against a pattern with named capture    *)
(* groups, every captured text is given a type by parseString, the query   *)
(* parameters of a uri field become sibling fields, and the resulting      *)
(* event travels over a channel to a worker that appends it, as one JSON   *)
(* line, to a file.                                                        *)
(*                                                                         *)
(* Text is modelled as a sequence of one-character strings, so that the    *)
(* parsers below work on characters, as the library routines do.           *)
(***************************************************************************)
EXTENDS Integers, Sequences, FiniteSets, TLC

VARIABLES
  config,              \* worker.Config: option name -> value, or Unset
  regex,               \* worker.regex: Nil, or the compiled pattern
  ts, ret,             \* parseString: its argument and what it returned
  cand, fields, name,  \* newKeyName: its arguments and what it returned
  line, result,        \* ParseEvents: its argument and how it ended
  tailConfig,          \* what convertConfig returned
  inputFile,           \* the lines of the input file, as appended
  canTail,             \* whether tail.TailFile succeeds on the input file
  tail,                \* the Tail that TailFile made: whether it is alive,
                       \* where it started and how many lines it is past
  tailer,              \* worker.tailer
  startPC,             \* where LogParser.Start is
  stoppedAt,           \* the lines the file had when LogParser.Stop ran, or -1
  readLog,             \* the lines the read loop took, and how each parse ended
  senders,             \* the goroutines that wait to send on worker.Channel
  QuitChannel,         \* FileWorker.QuitChannel
  outFileName, out,    \* FileWorker.outFileName and FileWorker.out
  workPC,              \* where FileWorker.Work is
  stopPC,              \* where FileWorker.Stop is
  outputName,          \* the option file.output of the global configuration
  files,               \* the output files: path -> the lines written
  taken                \* the events Work took from the channel, and what came of each

workerVars == <<config, regex>>
inferVars == <<ts, ret>>
keyVars == <<cand, fields, name>>
parseVars == <<line, result>>
tailVars == <<tailConfig, inputFile, canTail, tail, tailer, startPC, stoppedAt, readLog>>
sinkVars == <<QuitChannel, outFileName, out, workPC, stopPC, outputName, files, taken>>
pipeVars == <<tailVars, senders, sinkVars>>
vars == <<config, regex, ts, ret, cand, fields, name, line, result, tailConfig, inputFile,
          canTail, tail, tailer, startPC, stoppedAt, readLog, senders, QuitChannel,
          outFileName, out, workPC, stopPC, outputName, files, taken>>

(***************************************************************************)
(* The values of an event: time.Time, int64, bool, float64 and string.     *)
(***************************************************************************)
TimeV(t) == [kind |-> "time", val |-> t]
IntV(n) == [kind |-> "int", val |-> n]
BoolV(b) == [kind |-> "bool", val |-> b]
FloatV(f) == [kind |-> "float", val |-> f]
TextV(s) == [kind |-> "text", val |-> s]

Kinds == {"time", "int", "bool", "float", "text"}

\* An option of the configuration: not set, or set to a value.
Unset == [set |-> FALSE]
Set(x) == [set |-> TRUE, val |-> x]
\* What a call has returned: nothing yet, or a value.
None == [called |-> FALSE]
Got(x) == [called |-> TRUE, val |-> x]
\* The nil pointer and the nil map.
Nil == [nil |-> TRUE]

(***************************************************************************)
(* Characters.                                                             *)
(***************************************************************************)
DigitSeq == <<"0", "1", "2", "3", "4", "5", "6", "7", "8", "9">>
UpperSeq == <<"A", "B", "C", "D", "E", "F", "G", "H", "I", "J", "K", "L", "M",
              "N", "O", "P", "Q", "R", "S", "T", "U", "V", "W", "X", "Y", "Z">>
LowerSeq == <<"a", "b", "c", "d", "e", "f", "g", "h", "i", "j", "k", "l", "m",
              "n", "o", "p", "q", "r", "s", "t", "u", "v", "w", "x", "y", "z">>

Range(s) == {s[i] : i \in 1..Len(s)}
Digit == Range(DigitSeq)
Upper == Range(UpperSeq)

isDigit(s, i) == i <= Len(s) /\ s[i] \in Digit
DigitVal(c) == (CHOOSE i \in 1..10 : DigitSeq[i] = c) - 1
lower(c) == IF c \in Upper THEN LowerSeq[CHOOSE i \in 1..26 : UpperSeq[i] = c] ELSE c
ToLower(s) == [i \in 1..Len(s) |-> lower(s[i])]

\* s[n:] and s[:n], the whole or nothing of s when it is shorter than n.
Drop(s, n) == IF n >= Len(s) THEN <<>> ELSE SubSeq(s, n + 1, Len(s))
Take(s, n) == IF n >= Len(s) THEN s ELSE SubSeq(s, 1, n)
HasPrefix(s, p) == Len(s) >= Len(p) /\ Take(s, Len(p)) = p
AllDigits(s) == \A i \in 1..Len(s) : s[i] \in Digit

\* The position of the first c in s, 0 when there is none (strings.Index).
RECURSIVE IndexFrom(_, _, _)
IndexFrom(s, c, i) ==
  IF i > Len(s) THEN 0 ELSE IF s[i] = c THEN i ELSE IndexFrom(s, c, i + 1)
Index(s, c) == IndexFrom(s, c, 1)

\* A decimal numeral without its leading zeros ("0" for zero).
RECURSIVE StripZeros(_)
StripZeros(d) ==
  IF Len(d) > 1 /\ d[1] = "0" THEN StripZeros(Tail(d)) ELSE d

RECURSIVE StripTrailingZeros(_)
StripTrailingZeros(d) ==
  IF Len(d) > 1 /\ d[Len(d)] = "0" THEN StripTrailingZeros(Take(d, Len(d) - 1)) ELSE d

\* a < b for digit strings of one length.
RECURSIVE LexLess(_, _)
LexLess(a, b) ==
  IF a = <<>> \/ b = <<>> THEN FALSE
  ELSE IF a[1] # b[1] THEN DigitVal(a[1]) < DigitVal(b[1])
  ELSE LexLess(Tail(a), Tail(b))

\* a <= b for decimal numerals without leading zeros.
NumLE(a, b) == Len(a) < Len(b) \/ (Len(a) = Len(b) /\ ~LexLess(b, a))

\* 0.a < 0.b for digit strings read as decimal fractions.
RECURSIVE FracLess(_, _)
FracLess(a, b) ==
  IF b = <<>> THEN FALSE
  ELSE IF a = <<>> THEN \E i \in 1..Len(b) : b[i] # "0"
  ELSE IF a[1] # b[1] THEN DigitVal(a[1]) < DigitVal(b[1])
  ELSE FracLess(Tail(a), Tail(b))

Fail == [ok |-> FALSE]
Ok(x) == [ok |-> TRUE, val |-> x]

(***************************************************************************)
(* strconv.ParseInt(s, 10, 64). An int64 is kept as its sign and its       *)
(* decimal numeral, so that the 64-bit range is exact.                     *)
(***************************************************************************)
MaxInt64 == <<"9", "2", "2", "3", "3", "7", "2", "0", "3", "6", "8", "5", "4",
              "7", "7", "5", "8", "0", "7">>
MinInt64Abs == <<"9", "2", "2", "3", "3", "7", "2", "0", "3", "6", "8", "5", "4",
                 "7", "7", "5", "8", "0", "8">>

Int64(neg, digits) ==
  [neg |-> neg /\ StripZeros(digits) # <<"0">>, digits |-> StripZeros(digits)]

ParseInt(s) ==
  IF s = <<>> THEN Fail
  ELSE LET signed == s[1] \in {"+", "-"}
           neg == s[1] = "-"
           d == IF signed THEN Tail(s) ELSE s
       IN IF d = <<>> \/ ~AllDigits(d) THEN Fail
          ELSE IF NumLE(StripZeros(d), IF neg THEN MinInt64Abs ELSE MaxInt64)
          THEN Ok(Int64(neg, d))
          ELSE Fail

(***************************************************************************)
(* strconv.ParseBool.                                                      *)
(***************************************************************************)
BoolTrue == {<<"1">>, <<"t">>, <<"T">>, <<"T", "R", "U", "E">>,
             <<"t", "r", "u", "e">>, <<"T", "r", "u", "e">>}
BoolFalse == {<<"0">>, <<"f">>, <<"F">>, <<"F", "A", "L", "S", "E">>,
              <<"f", "a", "l", "s", "e">>, <<"F", "a", "l", "s", "e">>}

ParseBool(s) ==
  IF s \in BoolTrue THEN Ok(TRUE)
  ELSE IF s \in BoolFalse THEN Ok(FALSE)
  ELSE Fail

(***************************************************************************)
(* strconv.ParseFloat(s, 64), decimal syntax: the special values, then     *)
(* sign, digits with at most one point, and an optional exponent. A finite *)
(* float64 is kept as sign, decimal mantissa and decimal exponent.         *)
(***************************************************************************)
NaN == [class |-> "nan"]
Inf(neg) == [class |-> "inf", neg |-> neg]
Finite(neg, mant, exp) == [class |-> "finite", neg |-> neg, mant |-> mant, exp |-> exp]
Zero(neg) == Finite(neg, <<"0">>, 0)

IsNaN(f) == f.class = "nan"

\* special: "nan" without a sign, "inf" or "infinity" with an optional one,
\* whatever the case of the letters; the whole of s must be consumed.
special(s) ==
  LET signed == s # <<>> /\ s[1] \in {"+", "-"}
      body == ToLower(IF signed THEN Tail(s) ELSE s)
  IN IF body \in {<<"i", "n", "f">>, <<"i", "n", "f", "i", "n", "i", "t", "y">>}
     THEN Ok(Inf(signed /\ s[1] = "-"))
     ELSE IF ~signed /\ body = <<"n", "a", "n">> THEN Ok(NaN)
     ELSE Fail

\* The exponent's digits, as readFloat accumulates them: the sum stops
\* growing at 10000.
RECURSIVE ExpDigits(_, _)
ExpDigits(d, e) ==
  IF d = <<>> THEN e
  ELSE ExpDigits(Tail(d), IF e < 10000 THEN e * 10 + DigitVal(d[1]) ELSE e)

\* The largest finite float64 plus half a unit in the last place, and half
\* the smallest denormal, as decimal fractions of 10^309 and 10^-323.
OverflowFrac == <<"1", "7", "9", "7", "6", "9", "3", "1", "3", "4", "8", "6", "2",
                  "3", "1", "5", "8", "0", "7", "9", "2">>
UnderflowFrac == <<"2", "4", "7", "0", "3", "2", "8", "2", "2", "9", "2", "0", "6",
                   "2", "3", "2", "7", "2">>

\* The float64 nearest to mant * 10^exp, or the range error.
Round64(neg, mant, exp) ==
  LET lead == StripZeros(mant)
      mm == StripTrailingZeros(lead)
      ee == exp + (Len(lead) - Len(mm))
      top == Len(mm) + ee      \* the value is 0.mm * 10^top
  IN IF mm = <<"0">> THEN Ok(Zero(neg))
     ELSE IF top > 309 \/ (top = 309 /\ ~FracLess(mm, OverflowFrac)) THEN Fail
     ELSE IF top < -323 \/ (top = -323 /\ ~FracLess(UnderflowFrac, mm))
     THEN Ok(Zero(neg))
     ELSE Ok(Finite(neg, mm, ee))

readFloat(s) ==
  LET signed == s # <<>> /\ s[1] \in {"+", "-"}
      neg == signed /\ s[1] = "-"
      body == IF signed THEN Tail(s) ELSE s
      low == ToLower(body)
      epos == Index(low, "e")
      num == IF epos = 0 THEN body ELSE Take(body, epos - 1)
      dot == Index(num, ".")
      ipart == IF dot = 0 THEN num ELSE Take(num, dot - 1)
      fpart == IF dot = 0 THEN <<>> ELSE Drop(num, dot)
      etxt == IF epos = 0 THEN <<>> ELSE Drop(body, epos)
      esigned == etxt # <<>> /\ etxt[1] \in {"+", "-"}
      edig == IF esigned THEN Tail(etxt) ELSE etxt
      e == ExpDigits(edig, 0)
  IN IF ~AllDigits(ipart) \/ ~AllDigits(fpart) \/ ipart \o fpart = <<>> THEN Fail
     ELSE IF epos # 0 /\ (edig = <<>> \/ ~AllDigits(edig)) THEN Fail
     ELSE Round64(neg, ipart \o fpart,
                  (IF esigned /\ etxt[1] = "-" THEN -e ELSE e) - Len(fpart))

ParseFloat(s) ==
  IF s = <<>> THEN Fail
  ELSE IF special(s).ok THEN special(s)
  ELSE readFloat(s)

(***************************************************************************)
(* time.Parse(layout, value). A layout is kept as the sequence of its      *)
(* chunks: the reference-time elements below, and literal characters.      *)
(***************************************************************************)
StdChunks == {"2006", "06", "01", "02", "_2", "Jan", "Mon", "Monday", "15", "04",
              "05", "MST", "-0700", "Z07:00", ".999999999"}

shortMonthNames == << <<"J", "a", "n">>, <<"F", "e", "b">>, <<"M", "a", "r">>,
                      <<"A", "p", "r">>, <<"M", "a", "y">>, <<"J", "u", "n">>,
                      <<"J", "u", "l">>, <<"A", "u", "g">>, <<"S", "e", "p">>,
                      <<"O", "c", "t">>, <<"N", "o", "v">>, <<"D", "e", "c">> >>
shortDayNames == << <<"S", "u", "n">>, <<"M", "o", "n">>, <<"T", "u", "e">>,
                    <<"W", "e", "d">>, <<"T", "h", "u">>, <<"F", "r", "i">>,
                    <<"S", "a", "t">> >>
longDayNames == << <<"S", "u", "n", "d", "a", "y">>, <<"M", "o", "n", "d", "a", "y">>,
                   <<"T", "u", "e", "s", "d", "a", "y">>,
                   <<"W", "e", "d", "n", "e", "s", "d", "a", "y">>,
                   <<"T", "h", "u", "r", "s", "d", "a", "y">>,
                   <<"F", "r", "i", "d", "a", "y">>,
                   <<"S", "a", "t", "u", "r", "d", "a", "y">> >>

\* getnum: one or two digits, two when fixed.
getnum(s, fixed) ==
  IF ~isDigit(s, 1) THEN Fail
  ELSE IF ~isDigit(s, 2)
  THEN IF fixed THEN Fail ELSE [ok |-> TRUE, n |-> DigitVal(s[1]), rest |-> Drop(s, 1)]
  ELSE [ok |-> TRUE, n |-> DigitVal(s[1]) * 10 + DigitVal(s[2]), rest |-> Drop(s, 2)]

\* lookup: the first name of the table that val starts with, letter case aside.
lookup(tab, val) ==
  LET hits == {i \in 1..Len(tab) : HasPrefix(ToLower(val), ToLower(tab[i]))}
  IN IF hits = {} THEN Fail
     ELSE LET i == CHOOSE j \in hits : \A h \in hits : j <= h
          IN [ok |-> TRUE, n |-> i, rest |-> Drop(val, Len(tab[i]))]

\* The number of leading digits of s.
RECURSIVE LeadingDigits(_)
LeadingDigits(s) ==
  IF s = <<>> \/ s[1] \notin Digit THEN 0 ELSE 1 + LeadingDigits(Tail(s))

\* The number of leading spaces of s (cutspace).
RECURSIVE LeadingSpaces(_)
LeadingSpaces(s) ==
  IF s = <<>> \/ s[1] # " " THEN 0 ELSE 1 + LeadingSpaces(Tail(s))

\* skip: a literal character of the layout consumes itself; a space of the
\* layout consumes the spaces the value starts with, and needs one unless the
\* value has ended.
skip(value, c) ==
  IF c = " "
  THEN IF value # <<>> /\ value[1] # " " THEN Fail
       ELSE Ok(Drop(value, LeadingSpaces(value)))
  ELSE IF value = <<>> \/ value[1] # c THEN Fail
  ELSE Ok(Tail(value))

isLeap(year) == year % 4 = 0 /\ (year % 100 # 0 \/ year % 400 = 0)
daysIn(month, year) ==
  IF month = 2 THEN (IF isLeap(year) THEN 29 ELSE 28)
  ELSE IF month \in {4, 6, 9, 11} THEN 30 ELSE 31

\* A digit string as a number (atoi on digits).
RECURSIVE Atoi(_, _)
Atoi(d, n) == IF d = <<>> THEN n ELSE Atoi(Tail(d), n * 10 + DigitVal(d[1]))

\* parseSignedOffset: a sign and an hour of at most 23; the length consumed.
parseSignedOffset(value) ==
  IF value = <<>> \/ value[1] \notin {"+", "-"} THEN 0
  ELSE LET n == LeadingDigits(Tail(value))
       IN IF n = 0 \/ n > 2 \/ Atoi(SubSeq(value, 2, n + 1), 0) > 23 THEN 0 ELSE n + 1

\* parseTimeZone: the length of the zone abbreviation value starts with.
parseTimeZone(value) ==
  LET nUpper == CHOOSE n \in 0..6 :
        /\ \A i \in 1..n : i <= Len(value) /\ value[i] \in Upper
        /\ n = 6 \/ n >= Len(value) \/ value[n + 1] \notin Upper
  IN IF Len(value) < 3 THEN Fail
     ELSE IF Take(value, 4) \in {<<"C", "h", "S", "T">>, <<"M", "e", "S", "T">>} THEN Ok(4)
     ELSE IF Take(value, 3) = <<"G", "M", "T">>
     THEN Ok(3 + parseSignedOffset(Drop(value, 3)))
     ELSE IF value[1] \in {"+", "-"}
     THEN (IF parseSignedOffset(value) > 0 THEN Ok(parseSignedOffset(value)) ELSE Fail)
     ELSE IF nUpper = 5 /\ value[5] = "T" THEN Ok(5)
     ELSE IF nUpper = 4 /\ (value[4] = "T" \/ Take(value, 4) = <<"W", "I", "T", "A">>)
     THEN Ok(4)
     ELSE IF nUpper = 3 THEN Ok(3)
     ELSE Fail

UTC == [abbr |-> <<"U", "T", "C">>, offset |-> 0]
\* What Parse has read so far; the month and the day are 1 unless given.
Time0 == [year |-> 0, month |-> 1, day |-> 1, hour |-> 0, min |-> 0, sec |-> 0,
          nsec |-> <<>>, zone |-> UTC]

\* A numeric zone: sign, two digits of hours, sep, two digits of minutes.
numZone(value, sep) ==
  LET hh == SubSeq(value, 2, 3)
      mm == SubSeq(value, 4 + Len(sep), 5 + Len(sep))
  IN IF Len(value) < 5 + Len(sep) THEN Fail
     ELSE IF SubSeq(value, 4, 3 + Len(sep)) # sep THEN Fail
     ELSE IF value[1] \notin {"+", "-"} \/ ~AllDigits(hh) \/ ~AllDigits(mm) THEN Fail
     ELSE [ok |-> TRUE,
           zone |-> [abbr |-> <<>>,
                     offset |-> (IF value[1] = "-" THEN -1 ELSE 1)
                                * (Atoi(hh, 0) * 60 + Atoi(mm, 0)) * 60],
           rest |-> Drop(value, 5 + Len(sep))]

\* The digits of a fraction of a second that follows the seconds, "." included.
fracLen(value) ==
  IF Len(value) >= 2 /\ value[1] = "." /\ isDigit(value, 2)
  THEN 1 + LeadingDigits(Tail(value)) ELSE 0

\* One chunk of the layout, applied to what is left of the value.
ParseChunk(std, value, t, nextStd) ==
  CASE std = "2006" ->
         IF Len(value) < 4 \/ ~AllDigits(Take(value, 4)) THEN Fail
         ELSE Ok([t |-> [t EXCEPT !.year = Atoi(Take(value, 4), 0)], rest |-> Drop(value, 4)])
    [] std = "06" ->
         LET g == getnum(value, TRUE)
         IN IF ~g.ok THEN Fail
            ELSE Ok([t |-> [t EXCEPT !.year = IF g.n >= 69 THEN 1900 + g.n ELSE 2000 + g.n],
                     rest |-> g.rest])
    [] std = "01" ->
         LET g == getnum(value, TRUE)
         IN IF ~g.ok \/ g.n < 1 \/ g.n > 12 THEN Fail
            ELSE Ok([t |-> [t EXCEPT !.month = g.n], rest |-> g.rest])
    [] std = "Jan" ->
         LET g == lookup(shortMonthNames, value)
         IN IF ~g.ok THEN Fail ELSE Ok([t |-> [t EXCEPT !.month = g.n], rest |-> g.rest])
    [] std \in {"Mon", "Monday"} ->
         LET g == lookup(IF std = "Mon" THEN shortDayNames ELSE longDayNames, value)
         IN IF ~g.ok THEN Fail ELSE Ok([t |-> t, rest |-> g.rest])
    [] std \in {"02", "_2"} ->
         LET v1 == IF std = "_2" /\ value # <<>> /\ value[1] = " " THEN Tail(value) ELSE value
             g == getnum(v1, std = "02")
         IN IF ~g.ok THEN Fail ELSE Ok([t |-> [t EXCEPT !.day = g.n], rest |-> g.rest])
    [] std = "15" ->
         LET g == getnum(value, FALSE)
         IN IF ~g.ok \/ g.n >= 24 THEN Fail
            ELSE Ok([t |-> [t EXCEPT !.hour = g.n], rest |-> g.rest])
    [] std = "04" ->
         LET g == getnum(value, TRUE)
         IN IF ~g.ok \/ g.n >= 60 THEN Fail
            ELSE Ok([t |-> [t EXCEPT !.min = g.n], rest |-> g.rest])
    [] std = "05" ->
         LET g == getnum(value, TRUE)
             \* a fraction the layout does not ask for is read with the seconds
             n == IF g.ok /\ nextStd # ".999999999" THEN fracLen(g.rest) ELSE 0
         IN IF ~g.ok \/ g.n >= 60 THEN Fail
            ELSE Ok([t |-> [t EXCEPT !.sec = g.n,
                                     !.nsec = IF n = 0 THEN @ ELSE SubSeq(g.rest, 2, n)],
                     rest |-> Drop(g.rest, n)])
    [] std = ".999999999" ->
         LET n == fracLen(value)
         IN Ok([t |-> [t EXCEPT !.nsec = IF n = 0 THEN @ ELSE SubSeq(value, 2, n)],
                rest |-> Drop(value, n)])
    [] std = "MST" ->
         IF Take(value, 3) = UTC.abbr THEN Ok([t |-> [t EXCEPT !.zone = UTC], rest |-> Drop(value, 3)])
         ELSE LET z == parseTimeZone(value)
              IN IF ~z.ok THEN Fail
                 ELSE Ok([t |-> [t EXCEPT !.zone = [abbr |-> Take(value, z.val), offset |-> 0]],
                          rest |-> Drop(value, z.val)])
    [] std = "-0700" ->
         LET z == numZone(value, <<>>)
         IN IF ~z.ok THEN Fail ELSE Ok([t |-> [t EXCEPT !.zone = z.zone], rest |-> z.rest])
    [] std = "Z07:00" ->
         IF value # <<>> /\ value[1] = "Z" THEN Ok([t |-> [t EXCEPT !.zone = UTC], rest |-> Tail(value)])
         ELSE LET z == numZone(value, <<":">>)
              IN IF ~z.ok THEN Fail ELSE Ok([t |-> [t EXCEPT !.zone = z.zone], rest |-> z.rest])
    [] OTHER ->
         LET r == skip(value, std)
         IN IF ~r.ok THEN Fail ELSE Ok([t |-> t, rest |-> r.val])

RECURSIVE ParseChunks(_, _, _)
ParseChunks(layout, value, t) ==
  IF layout = <<>>
  THEN \* no text may be left over, and the day must exist in its month
       IF value # <<>> THEN Fail
       ELSE IF t.day < 1 \/ t.day > daysIn(t.month, t.year) THEN Fail
       ELSE Ok(t)
  ELSE LET r == ParseChunk(layout[1], value, t,
                           IF Len(layout) > 1 THEN layout[2] ELSE "")
       IN IF ~r.ok THEN Fail ELSE ParseChunks(Tail(layout), r.val.rest, r.val.t)

timeParse(layout, value) == ParseChunks(layout, value, Time0)

(***************************************************************************)
(* The configuration (viper): an option that is not set reads as the zero  *)
(* value of the type asked for.                                            *)
(***************************************************************************)
configParseKeysToIgnore == "parse.keys_to_ignore"
configParseTimePatterns == "parse.time_patterns"
configParsePattern == "parse.pattern"
configTailReopen == "time.reopen"

IsSet(c, key) == key \in DOMAIN c /\ c[key].set
GetStringSlice(c, key) == IF IsSet(c, key) THEN c[key].val ELSE <<>>
GetString(c, key) == IF IsSet(c, key) THEN c[key].val ELSE <<>>
GetBool(c, key) == IF IsSet(c, key) THEN c[key].val ELSE FALSE

(***************************************************************************)
(* parseString: the configured time layouts, the built-in ones, then       *)
(* integer, boolean, float, and the text itself.                           *)
(***************************************************************************)
nginxFormat == <<"02", "/", "Jan", "/", "2006", ":", "15", ":", "04", ":", "05", " ", "-0700">>
ANSIC == <<"Mon", " ", "Jan", " ", "_2", " ", "15", ":", "04", ":", "05", " ", "2006">>
UnixDate == <<"Mon", " ", "Jan", " ", "_2", " ", "15", ":", "04", ":", "05", " ", "MST", " ", "2006">>
RubyDate == <<"Mon", " ", "Jan", " ", "02", " ", "15", ":", "04", ":", "05", " ", "-0700", " ", "2006">>
RFC822 == <<"02", " ", "Jan", " ", "06", " ", "15", ":", "04", " ", "MST">>
RFC822Z == <<"02", " ", "Jan", " ", "06", " ", "15", ":", "04", " ", "-0700">>
RFC850 == <<"Monday", ",", " ", "02", "-", "Jan", "-", "06", " ", "15", ":", "04", ":", "05", " ", "MST">>
RFC1123 == <<"Mon", ",", " ", "02", " ", "Jan", " ", "2006", " ", "15", ":", "04", ":", "05", " ", "MST">>
RFC1123Z == <<"Mon", ",", " ", "02", " ", "Jan", " ", "2006", " ", "15", ":", "04", ":", "05", " ", "-0700">>
RFC3339 == <<"2006", "-", "01", "-", "02", "T", "15", ":", "04", ":", "05", "Z07:00">>
RFC3339Nano == <<"2006", "-", "01", "-", "02", "T", "15", ":", "04", ":", "05", ".999999999", "Z07:00">>

\* The layouts parseString tries once the configured ones have failed, in
\* the order it tries them.
builtinFormats == <<nginxFormat, ANSIC, UnixDate, RubyDate, RFC822, RFC822Z, RFC850,
                    RFC1123, RFC1123Z, RFC3339, RFC3339Nano>>

\* The first layout of the list that parses ts, and the time it gives.
RECURSIVE firstTime(_, _)
firstTime(layouts, s) ==
  IF layouts = <<>> THEN Fail
  ELSE IF timeParse(layouts[1], s).ok THEN timeParse(layouts[1], s)
  ELSE firstTime(Tail(layouts), s)

\* parseString with the boolean parse tried before the integer parse.
parseStringBoolFirst(s, c) ==
  LET timePatterns == GetStringSlice(c, configParseTimePatterns)
      t == firstTime(timePatterns \o builtinFormats, s)
      pi == ParseInt(s)
      pb == ParseBool(s)
      pf == ParseFloat(s)
  IN IF t.ok THEN TimeV(t.val)
     ELSE IF pb.ok THEN BoolV(pb.val)
     ELSE IF pi.ok THEN IntV(pi.val)
     ELSE IF pf.ok THEN (IF ~IsNaN(pf.val) THEN FloatV(pf.val) ELSE FloatV(Zero(FALSE)))
     ELSE TextV(s)

\* parseString without the test for NaN.
parseStringKeepNaN(s, c) ==
  LET timePatterns == GetStringSlice(c, configParseTimePatterns)
      t == firstTime(timePatterns \o builtinFormats, s)
      pi == ParseInt(s)
      pb == ParseBool(s)
      pf == ParseFloat(s)
  IN IF t.ok THEN TimeV(t.val)
     ELSE IF pi.ok THEN IntV(pi.val)
     ELSE IF pb.ok THEN BoolV(pb.val)
     ELSE IF pf.ok THEN FloatV(pf.val)
     ELSE TextV(s)

parseString(s, c) ==
  LET timePatterns == GetStringSlice(c, configParseTimePatterns)
      t == firstTime(timePatterns \o builtinFormats, s)
      pi == ParseInt(s)
      pb == ParseBool(s)
      pf == ParseFloat(s)
  IN IF t.ok THEN TimeV(t.val)
     ELSE IF pi.ok THEN IntV(pi.val)
     ELSE IF pb.ok THEN BoolV(pb.val)
     ELSE IF pf.ok THEN (IF ~IsNaN(pf.val) THEN FloatV(pf.val) ELSE FloatV(Zero(FALSE)))
     ELSE TextV(s)

(***************************************************************************)
(* An event is a map from field names to values: a function whose domain   *)
(* is the set of its keys.                                                 *)
(***************************************************************************)
EmptyEvent == <<>>
Put(v, f, x) == [g \in DOMAIN v \cup {f} |-> IF g = f THEN x ELSE v[g]]

\* newKeyName that does not look the new name up again.
newKeyNameOnce(k, m) ==
  IF k \notin DOMAIN m THEN k ELSE <<"_">> \o k

RECURSIVE newKeyName(_, _)
newKeyName(k, m) ==
  IF k \notin DOMAIN m THEN k ELSE newKeyName(<<"_">> \o k, m)

sliceContains(list, a) == \E i \in 1..Len(list) : list[i] = a

shouldIgnore(k, c) ==
  LET keysToIgnore == GetStringSlice(c, configParseKeysToIgnore)
  IN k = <<>> \/ sliceContains(keysToIgnore, k)

(***************************************************************************)
(* net/url: Parse and Query, for references made of a path, a query and a  *)
(* fragment, with or without a scheme.                                     *)
(***************************************************************************)
HexDigit == Digit \cup {"a", "b", "c", "d", "e", "f", "A", "B", "C", "D", "E", "F"}

\* The printable characters, in the order of their codes from 32 to 126
\* (the grave accent, code 96, by name).
AsciiSeq == <<" ", "!", "\"", "#", "$", "%", "&", "'", "(", ")", "*", "+", ",", "-", ".", "/",
              "0", "1", "2", "3", "4", "5", "6", "7", "8", "9", ":", ";", "<", "=", ">", "?",
              "@", "A", "B", "C", "D", "E", "F", "G", "H", "I", "J", "K", "L", "M", "N", "O",
              "P", "Q", "R", "S", "T", "U", "V", "W", "X", "Y", "Z", "[", "\\", "]", "^", "_",
              "<grave>", "a", "b", "c", "d", "e", "f", "g", "h", "i", "j", "k", "l", "m", "n", "o",
              "p", "q", "r", "s", "t", "u", "v", "w", "x", "y", "z", "{", "|", "}", "~">>

HexVal(h) ==
  IF h \in Digit THEN DigitVal(h)
  ELSE 9 + (CHOOSE i \in 1..6 : LowerSeq[i] = lower(h))

\* The character an escape stands for; the bytes that are not printable
\* characters are not told apart.
Unhex(h1, h2) ==
  LET b == HexVal(h1) * 16 + HexVal(h2)
  IN IF b >= 32 /\ b <= 126 THEN AsciiSeq[b - 31] ELSE "<byte>"

\* unescape: every % must start an escape of two hex digits; in a query
\* component a + is a space.
RECURSIVE unescape(_, _)
unescape(s, inQuery) ==
  IF s = <<>> THEN Ok(<<>>)
  ELSE IF s[1] = "%"
  THEN IF Len(s) >= 3 /\ s[2] \in HexDigit /\ s[3] \in HexDigit
       THEN LET r == unescape(Drop(s, 3), inQuery)
            IN IF r.ok THEN Ok(<<Unhex(s[2], s[3])>> \o r.val) ELSE Fail
       ELSE Fail
  ELSE LET r == unescape(Tail(s), inQuery)
       IN IF r.ok THEN Ok(<<IF inQuery /\ s[1] = "+" THEN " " ELSE s[1]>> \o r.val)
          ELSE Fail

QueryUnescape(s) == unescape(s, TRUE)

\* strings.Cut(s, sep): what is before and after the first sep.
Cut(s, sep) ==
  LET i == Index(s, sep)
  IN IF i = 0 THEN [before |-> s, after |-> <<>>, found |-> FALSE]
     ELSE [before |-> Take(s, i - 1), after |-> Drop(s, i), found |-> TRUE]

Letter == Upper \cup Range(LowerSeq)

\* getScheme: the letters, digits, + - . that precede the first colon.
RECURSIVE getScheme(_, _)
getScheme(rawURL, i) ==
  IF i > Len(rawURL) THEN [ok |-> TRUE, scheme |-> <<>>, rest |-> rawURL]
  ELSE IF rawURL[i] \in Letter THEN getScheme(rawURL, i + 1)
  ELSE IF rawURL[i] \in Digit \cup {"+", "-", "."}
  THEN IF i = 1 THEN [ok |-> TRUE, scheme |-> <<>>, rest |-> rawURL]
       ELSE getScheme(rawURL, i + 1)
  ELSE IF rawURL[i] = ":"
  THEN IF i = 1 THEN Fail
       ELSE [ok |-> TRUE, scheme |-> Take(rawURL, i - 1), rest |-> Drop(rawURL, i)]
  ELSE [ok |-> TRUE, scheme |-> <<>>, rest |-> rawURL]

\* url.Parse: the raw query of the reference, or the error.
urlParse(rawURL) ==
  LET u == Cut(rawURL, "#")
      sch == getScheme(u.before, 1)
      cut == Cut(sch.rest, "?")
      rest == cut.before
      rawQuery == cut.after
  IN IF ~sch.ok THEN Fail
     ELSE IF ~unescape(u.after, FALSE).ok THEN Fail
     ELSE IF ~HasPrefix(rest, <<"/">>) /\ sch.scheme # <<>> THEN Ok([RawQuery |-> rawQuery])
     ELSE IF ~HasPrefix(rest, <<"/">>) /\ Index(Cut(rest, "/").before, ":") # 0 THEN Fail
     ELSE IF ~unescape(rest, FALSE).ok THEN Fail
     ELSE Ok([RawQuery |-> rawQuery])

\* url.ParseQuery, as Query uses it: the pairs are read from left to right,
\* a pair whose key or value does not unescape is left out, and a key keeps
\* its values in the order read.
RECURSIVE parseQuery(_, _)
parseQuery(query, q) ==
  IF query = <<>> THEN q
  ELSE LET c == Cut(query, "&")
           kv == Cut(c.before, "=")
           qk == QueryUnescape(kv.before)
           qv == QueryUnescape(kv.after)
       IN IF c.before = <<>> \/ ~qk.ok \/ ~qv.ok THEN parseQuery(c.after, q)
          ELSE parseQuery(c.after,
                          Put(q, qk.val, (IF qk.val \in DOMAIN q THEN q[qk.val] ELSE <<>>)
                                          \o <<qv.val>>))

Query(u) == parseQuery(u.RawQuery, EmptyEvent)

(***************************************************************************)
(* regexp, for the patterns the model configures: a list of capture        *)
(* groups, one per field of the line, with single spaces between them and  *)
(* ^ and $ around them,                                                    *)
(*     ^(?P<name1>\S+) (?P<name2>\d+) ... $                                *)
(* each group a record of its name ("" for an unnamed group) and of what   *)
(* it matches. The empty list is the empty pattern. A group of any other   *)
(* class makes the pattern one that does not compile.                      *)
(***************************************************************************)
Classes == {"nonspace", "digits"}
Group(n, class) == [name |-> n, class |-> class]

regexpCompile(pattern) ==
  IF \A i \in 1..Len(pattern) : pattern[i].class \in Classes
  THEN Ok([groups |-> pattern])
  ELSE Fail

\* strings.Split(s, " ").
RECURSIVE Split(_)
Split(s) ==
  LET c == Cut(s, " ")
  IN IF ~c.found THEN <<s>> ELSE <<c.before>> \o Split(c.after)

Whitespace == {" ", "\t", "\n", "\r"}

classMatches(class, s) ==
  /\ s # <<>>
  /\ IF class = "digits" THEN AllDigits(s) ELSE \A i \in 1..Len(s) : s[i] \notin Whitespace

\* FindStringSubmatch: the whole match and the text of every group, or nil.
\* The empty pattern matches the empty text every line starts with.
FindStringSubmatch(re, s) ==
  LET tokens == Split(s)
  IN IF re.groups = <<>> THEN Ok(<< <<>> >>)
     ELSE IF /\ Len(tokens) = Len(re.groups)
             /\ \A i \in 1..Len(tokens) : classMatches(re.groups[i].class, tokens[i])
     THEN Ok(<<s>> \o tokens)
     ELSE Fail

\* SubexpNames: the name of the whole match is empty.
SubexpNames(re) == << <<>> >> \o [i \in 1..Len(re.groups) |-> re.groups[i].name]

(***************************************************************************)
(* ParseURI. The query is a Go map, and ranging over a map visits its keys *)
(* in an order the runtime chooses: every order is possible, and ParseURI  *)
(* is the set of events the orders can leave.                              *)
(***************************************************************************)
uriName == <<"u", "r", "i">>

\* The body of the loop with the key as the query has it looked up among the
\* keys to ignore, not the name it is stored under.
visitKeyIgnoreQueryKey(kk, kvs, v, c) ==
  LET newKey == newKeyName(kk, v)
  IN IF ~shouldIgnore(kk, c) /\ Len(kvs) > 0
     THEN Put(v, newKey, parseString(kvs[1], c))
     ELSE v

\* The body of the loop with the last value of the key stored, not the first.
visitKeyLastValue(kk, kvs, v, c) ==
  LET newKey == newKeyName(kk, v)
  IN IF ~shouldIgnore(newKey, c) /\ Len(kvs) > 0
     THEN Put(v, newKey, parseString(kvs[Len(kvs)], c))
     ELSE v

\* The body of the loop, for the query key kk and its values kvs.
visitKey(kk, kvs, v, c) ==
  LET newKey == newKeyName(kk, v)
  IN IF ~shouldIgnore(newKey, c) /\ Len(kvs) > 0
     THEN Put(v, newKey, parseString(kvs[1], c))
     ELSE v

RECURSIVE rangeQuery(_, _, _, _)
rangeQuery(q, left, v, c) ==
  IF left = {} THEN {v}
  ELSE UNION {rangeQuery(q, left \ {kk}, visitKey(kk, q[kk], v, c), c) : kk \in left}

ParseURI(uri, v, c) ==
  IF uri # <<>> /\ urlParse(uri).ok
  THEN LET q == Query(urlParse(uri).val) IN rangeQuery(q, DOMAIN q, v, c)
  ELSE {v}

(***************************************************************************)
(* ParseEvents: how a call can end. A nil worker.regex is dereferenced by  *)
(* FindStringSubmatch, and the call panics.                                *)
(***************************************************************************)
Panic == [panic |-> TRUE, v |-> Nil, err |-> FALSE]
Returned(v, err) == [panic |-> FALSE, v |-> v, err |-> err]

\* The loop over the submatches, from the i-th on.
RECURSIVE rangeMatch(_, _, _, _, _)
rangeMatch(i, match, names, v, c) ==
  IF i > Len(match) THEN {v}
  ELSE LET v1 == IF ~shouldIgnore(names[i], c)
                 THEN Put(v, names[i], parseString(match[i], c))
                 ELSE v
           vs == IF names[i] = uriName THEN ParseURI(match[i], v1, c) ELSE {v1}
       IN UNION {rangeMatch(i + 1, match, names, w, c) : w \in vs}

ParseEvents(ln, re, c) ==
  IF re = Nil THEN {Panic}
  ELSE LET match == FindStringSubmatch(re, ln)
           names == SubexpNames(re)
       IN IF match.ok
          THEN {Returned(w, FALSE) : w \in rangeMatch(1, match.val, names, EmptyEvent, c)}
          ELSE {Returned(Nil, TRUE)}

\* Init: the pattern of the configuration, compiled; worker.regex stays as
\* it is when the pattern does not compile.
workerInit(re, c) ==
  LET pattern == GetString(c, configParsePattern)
      compiled == regexpCompile(pattern)
  IN IF compiled.ok THEN compiled.val ELSE re

(***************************************************************************)
(* encoding/json: Marshal of an event. The keys are written in the order   *)
(* of their bytes; & < > are escaped in strings; an integer is its         *)
(* numeral, a time its RFC 3339 text; a float that is infinite cannot be   *)
(* written, and Marshal fails.                                             *)
(***************************************************************************)
Code(c) == IF c \in Range(AsciiSeq) THEN 31 + (CHOOSE i \in 1..Len(AsciiSeq) : AsciiSeq[i] = c)
           ELSE 255

\* a < b in the order of the bytes.
RECURSIVE BytesLess(_, _)
BytesLess(a, b) ==
  IF b = <<>> THEN FALSE
  ELSE IF a = <<>> THEN TRUE
  ELSE IF a[1] # b[1] THEN Code(a[1]) < Code(b[1])
  ELSE BytesLess(Tail(a), Tail(b))

RECURSIVE SortedKeys(_)
SortedKeys(S) ==
  IF S = {} THEN <<>>
  ELSE LET least == CHOOSE x \in S : \A y \in S \ {x} : BytesLess(x, y)
       IN <<least>> \o SortedKeys(S \ {least})

jsonEscape(c) ==
  CASE c = "\"" -> <<"\\", "\"">>
    [] c = "\\" -> <<"\\", "\\">>
    [] c = "&" -> <<"\\", "u", "0", "0", "2", "6">>
    [] c = "<" -> <<"\\", "u", "0", "0", "3", "c">>
    [] c = ">" -> <<"\\", "u", "0", "0", "3", "e">>
    [] OTHER -> <<c>>

RECURSIVE jsonEscapeAll(_)
jsonEscapeAll(s) == IF s = <<>> THEN <<>> ELSE jsonEscape(s[1]) \o jsonEscapeAll(Tail(s))

jsonString(s) == <<"\"">> \o jsonEscapeAll(s) \o <<"\"">>

\* n as a numeral of at least w digits.
RECURSIVE Itoa(_, _)
Itoa(n, w) ==
  IF n < 10 /\ w <= 1 THEN <<DigitSeq[n + 1]>>
  ELSE Itoa(n \div 10, w - 1) \o <<DigitSeq[(n % 10) + 1]>>

RECURSIVE Zeros(_)
Zeros(n) == IF n <= 0 THEN <<>> ELSE <<"0">> \o Zeros(n - 1)

\* A float: plain decimals, and the exponent form below 1e-6 and from 1e21.
jsonFloat(f) ==
  LET top == Len(f.mant) + f.exp      \* the value is 0.mant * 10^top
      sign == IF f.neg THEN <<"-">> ELSE <<>>
      e == top - 1
  IN IF f.mant = <<"0">> THEN sign \o <<"0">>
     ELSE IF top < -5 \/ top > 21
     THEN sign \o <<f.mant[1]>>
          \o (IF Len(f.mant) > 1 THEN <<".">> \o Tail(f.mant) ELSE <<>>)
          \o <<"e">>
          \o (IF e < 0 THEN <<"-">> \o Itoa(-e, 1) ELSE <<"+">> \o Itoa(e, 2))
     ELSE IF top <= 0 THEN sign \o <<"0", ".">> \o Zeros(-top) \o f.mant
     ELSE IF top >= Len(f.mant) THEN sign \o f.mant \o Zeros(top - Len(f.mant))
     ELSE sign \o Take(f.mant, top) \o <<".">> \o Drop(f.mant, top)

\* A time, as Time.MarshalJSON writes it: RFC3339Nano between quotes.
jsonTime(t) ==
  LET frac == StripTrailingZeros(Take(t.nsec, 9))
      off == IF t.zone.offset < 0 THEN -t.zone.offset ELSE t.zone.offset
  IN <<"\"">> \o Itoa(t.year, 4) \o <<"-">> \o Itoa(t.month, 2) \o <<"-">> \o Itoa(t.day, 2)
     \o <<"T">> \o Itoa(t.hour, 2) \o <<":">> \o Itoa(t.min, 2) \o <<":">> \o Itoa(t.sec, 2)
     \o (IF frac \in {<<>>, <<"0">>} THEN <<>> ELSE <<".">> \o frac)
     \o (IF t.zone.offset = 0 THEN <<"Z">>
         ELSE <<IF t.zone.offset < 0 THEN "-" ELSE "+">> \o Itoa(off \div 3600, 2)
              \o <<":">> \o Itoa((off % 3600) \div 60, 2))
     \o <<"\"">>

jsonValue(x) ==
  CASE x.kind = "text" -> Ok(jsonString(x.val))
    [] x.kind = "int" -> Ok((IF x.val.neg THEN <<"-">> ELSE <<>>) \o x.val.digits)
    [] x.kind = "bool" -> Ok(IF x.val THEN <<"t", "r", "u", "e">> ELSE <<"f", "a", "l", "s", "e">>)
    [] x.kind = "float" -> IF x.val.class = "finite" THEN Ok(jsonFloat(x.val)) ELSE Fail
    [] x.kind = "time" -> IF x.val.year > 9999 THEN Fail ELSE Ok(jsonTime(x.val))

RECURSIVE jsonMembers(_, _)
jsonMembers(keys, v) ==
  IF keys = <<>> THEN <<>>
  ELSE jsonString(keys[1]) \o <<":">> \o jsonValue(v[keys[1]]).val
       \o (IF Len(keys) > 1 THEN <<",">> ELSE <<>>) \o jsonMembers(Tail(keys), v)

Marshal(v) ==
  IF \E f \in DOMAIN v : ~jsonValue(v[f]).ok THEN Fail
  ELSE Ok(<<"{">> \o jsonMembers(SortedKeys(DOMAIN v), v) \o <<"}">>)

(***************************************************************************)
(* The configurations and the texts the checks below draw from.            *)
(***************************************************************************)
ConfigKeys == {configParseKeysToIgnore, configParseTimePatterns, configParsePattern,
               "tail.from_beginning", "tail.from_beginng", "tail.reopen", configTailReopen}
NoConfig == [key \in ConfigKeys |-> Unset]
With(c, key, x) == [c EXCEPT ![key] = Set(x)]

YearLayout == <<"2006">>
MonthDayLayout == <<"01", "/", "02">>
DayMonthLayout == <<"02", "/", "01">>

TimePatternLists == {<<>>, <<YearLayout>>, <<MonthDayLayout, DayMonthLayout>>,
                     <<DayMonthLayout, MonthDayLayout>>}

InferConfigs == {NoConfig} \cup {With(NoConfig, configParseTimePatterns, tp) : tp \in TimePatternLists}

RawStrings == {
  <<>>, <<"1">>, <<"0">>, <<"t">>, <<"t", "r", "u", "e">>, <<"T", "R", "U", "E">>,
  <<"F", "a", "l", "s", "e">>, <<"t", "R", "u", "E">>, <<"5">>, <<"2", "0", "0">>,
  <<"-", "7">>, <<"+", "7">>, <<"0", "0", "7">>, <<"-", "0">>,
  <<"9", "2", "2", "3", "3", "7", "2", "0", "3", "6", "8", "5", "4", "7", "7", "5", "8", "0", "7">>,
  <<"9", "2", "2", "3", "3", "7", "2", "0", "3", "6", "8", "5", "4", "7", "7", "5", "8", "0", "8">>,
  <<"-", "9", "2", "2", "3", "3", "7", "2", "0", "3", "6", "8", "5", "4", "7", "7", "5", "8", "0", "8">>,
  <<"-", "9", "2", "2", "3", "3", "7", "2", "0", "3", "6", "8", "5", "4", "7", "7", "5", "8", "0", "9">>,
  <<"1", ".", "5">>, <<"1", "e", "5">>, <<".", "5">>, <<"1", ".">>, <<"-", "0", ".", "0">>,
  <<"1", "e", "9", "9", "9">>, <<"1", "e", "-", "9", "9", "9">>,
  <<"1", ".", "8", "e", "3", "0", "8">>, <<"1", ".", "7", "e", "3", "0", "8">>,
  <<"N", "a", "N">>, <<"n", "a", "n">>, <<"+", "n", "a", "n">>, <<"i", "n", "f">>,
  <<"-", "I", "n", "f">>, <<"I", "n", "f", "i", "n", "i", "t", "y">>,
  <<"i", "n", "f", "i", "n">>, <<"G", "E", "T">>, <<"e", "n">>,
  <<"1", "0", ".", "0", ".", "0", ".", "1">>,
  <<"/", "s", "e", "a", "r", "c", "h", "?", "q", "=", "5", "&", "l", "a", "n", "g", "=", "e", "n">>,
  <<"1", "e", "5", "x">>, <<"1", ".", "2", ".", "3">>, <<"-", "-", "1">>, <<"e", "5">>,
  <<".">>, <<"2", "0", "1", "5">>, <<"0", "3", "/", "0", "4">>, <<"1", "3", "/", "0", "4">>,
  <<"0", "2", "/", "3", "0">>,
  <<"2", "0", "1", "5", "-", "0", "6", "-", "0", "7", "T", "0", "8", ":", "0", "9", ":", "1", "0", "Z">>,
  <<"2", "0", "1", "5", "-", "0", "6", "-", "0", "7", "T", "0", "8", ":", "0", "9", ":", "1", "0", ".", "5", "+", "0", "2", ":", "0", "0">>,
  <<"2", "0", "1", "5", "-", "0", "2", "-", "3", "0", "T", "0", "8", ":", "0", "9", ":", "1", "0", "Z">>,
  <<"2", "0", "1", "6", "-", "0", "2", "-", "2", "9", "T", "0", "8", ":", "0", "9", ":", "1", "0", "Z">>,
  <<"2", "0", "1", "5", "-", "0", "6", "-", "0", "7", "T", "0", "8", ":", "0", "9", ":", "1", "0">>,
  <<"2", "0", "1", "5", "-", "0", "6", "-", "0", "7", "T", "2", "4", ":", "0", "9", ":", "1", "0", "Z">>,
  <<"0", "7", "/", "J", "u", "n", "/", "2", "0", "1", "5", ":", "0", "8", ":", "0", "9", ":", "1", "0", " ", "+", "0", "2", "0", "0">>,
  <<"S", "u", "n", " ", "J", "u", "n", " ", " ", "7", " ", "0", "8", ":", "0", "9", ":", "1", "0", " ", "2", "0", "1", "5">>,
  <<"S", "u", "n", " ", "J", "u", "n", " ", " ", "7", " ", "0", "8", ":", "0", "9", ":", "1", "0", " ", "P", "D", "T", " ", "2", "0", "1", "5">>,
  <<"S", "u", "n", " ", "J", "u", "n", " ", "0", "7", " ", "0", "8", ":", "0", "9", ":", "1", "0", " ", "+", "0", "2", "0", "0", " ", "2", "0", "1", "5">>,
  <<"0", "7", " ", "J", "u", "n", " ", "1", "5", " ", "0", "8", ":", "0", "9", " ", "P", "D", "T">>,
  <<"0", "7", " ", "J", "u", "n", " ", "1", "5", " ", "0", "8", ":", "0", "9", " ", "+", "0", "2", "0", "0">>,
  <<"S", "u", "n", "d", "a", "y", ",", " ", "0", "7", "-", "J", "u", "n", "-", "1", "5", " ", "0", "8", ":", "0", "9", ":", "1", "0", " ", "P", "D", "T">>,
  <<"S", "u", "n", ",", " ", "0", "7", " ", "J", "u", "n", " ", "2", "0", "1", "5", " ", "0", "8", ":", "0", "9", ":", "1", "0", " ", "G", "M", "T">>,
  <<"S", "u", "n", ",", " ", "0", "7", " ", "J", "u", "n", " ", "2", "0", "1", "5", " ", "0", "8", ":", "0", "9", ":", "1", "0", " ", "+", "0", "2", "0", "0">>,
  <<"s", "u", "n", ",", " ", "0", "7", " ", "j", "u", "n", " ", "2", "0", "1", "5", " ", "0", "8", ":", "0", "9", ":", "1", "0", " ", "U", "T", "C">>,
  <<"S", "u", "n", ",", " ", "0", "7", " ", "J", "u", "n", " ", "2", "0", "1", "5", " ", "0", "8", ":", "0", "9", ":", "1", "0", " ", "p", "d", "t">>}

(***************************************************************************)
(* parseString on its own: any text of RawStrings, under any of the        *)
(* configurations of InferConfigs.                                         *)
(***************************************************************************)
(***************************************************************************)
(* The two workers. LogParser.Start tails the input file and, for every    *)
(* line ParseEvents returns an event for, starts a goroutine that sends    *)
(* the event on worker.Channel; FileWorker.Work receives from that channel *)
(* and appends each event, marshalled, to the output file.                 *)
(***************************************************************************)

\* convertConfig: the tail.Config of the worker's configuration. A nil
\* Location makes the tail start at the start of the file.
convertConfig(c) ==
  [Location |-> IF ~GetBool(c, "tail.from_beginng") THEN "end" ELSE "start",
   ReOpen |-> IF IsSet(c, "tail.reopen") THEN GetBool(c, configTailReopen) ELSE FALSE,
   Follow |-> TRUE]

\* strings.TrimSpace.
RECURSIVE TrimLeft(_)
TrimLeft(s) == IF s # <<>> /\ s[1] \in Whitespace THEN TrimLeft(Tail(s)) ELSE s
RECURSIVE TrimRight(_)
TrimRight(s) ==
  IF s # <<>> /\ s[Len(s)] \in Whitespace THEN TrimRight(Take(s, Len(s) - 1)) ELSE s
TrimSpace(s) == TrimRight(TrimLeft(s))

\* tail.TailFile: a Tail that follows the file from its Location on.
TailFile(file, tc) ==
  [alive |-> TRUE, from |-> IF tc.Location = "end" THEN Len(file) ELSE 0,
   pos |-> IF tc.Location = "end" THEN Len(file) ELSE 0]

\* A read loop that sends whatever ParseEvents returned, error or not.
spawnAlways(id, o) == {[id |-> id, v |-> IF o.err THEN EmptyEvent ELSE o.v]}

\* A read loop that parses and sends nothing.
spawnNone(id, o) == {}

\* The goroutines the read loop starts for line id, given how ParseEvents
\* ended: one that sends the event, when there is no error.
spawn(id, o) == IF ~o.err THEN {[id |-> id, v |-> o.v]} ELSE {}

\* The output file.
DefaultOutputName == "output.jsonl"
ConfiguredFileOutputName(o) == IF o.set THEN o.val ELSE DefaultOutputName

\* The paths os.OpenFile cannot open.
UnopenablePaths == {"/nodir/out.jsonl"}
Paths == {DefaultOutputName, "other.jsonl"} \cup UnopenablePaths

\* CachedFileHandle: the name and the handle the worker has afterwards.
CachedFileHandle(fn, h, o) ==
  LET fileName == ConfiguredFileOutputName(o)
      closed == IF h # Nil THEN [h EXCEPT !.closed = TRUE] ELSE h
  IN IF fileName # fn
     THEN IF fileName \in UnopenablePaths
          THEN [outFileName |-> fn, out |-> closed]
          ELSE [outFileName |-> fileName, out |-> [path |-> fileName, closed |-> FALSE]]
     ELSE [outFileName |-> fn, out |-> h]

\* WriteString of a line and of the newline after it: a nil or closed
\* handle writes nothing.
WriteLine(fs, h, text) ==
  IF h = Nil \/ h.closed THEN fs ELSE [fs EXCEPT ![h.path] = Append(@, text)]

PipeIdle ==
  /\ tailConfig = None /\ inputFile = <<>> /\ canTail = TRUE /\ tail = Nil /\ tailer = None
  /\ startPC = "idle" /\ stoppedAt = -1 /\ readLog = <<>> /\ senders = {}
  /\ QuitChannel = Nil /\ outFileName = "" /\ out = Nil /\ workPC = "idle"
  /\ stopPC = "idle" /\ outputName = Unset /\ files = [f \in Paths |-> <<>>]
  /\ taken = <<>>

InferIdle == ts = <<>> /\ ret = None
KeyIdle == cand = <<>> /\ fields = EmptyEvent /\ name = None
ParseIdle == line = <<>> /\ result = None

CallParseString ==
  /\ \E s \in RawStrings :
       /\ ts' = s
       /\ ret' = Got(parseString(s, config))
  /\ UNCHANGED <<workerVars, keyVars, parseVars, pipeVars>>

InitInfer ==
  /\ config \in InferConfigs
  /\ regex = Nil
  /\ InferIdle /\ KeyIdle /\ ParseIdle /\ PipeIdle

NextInfer == CallParseString

SpecInfer == InitInfer /\ [][NextInfer]_vars

\* Two values of an event are the same value.
SameValue(a, b) == a.kind = b.kind /\ a.val = b.val

\* The layouts that parse ts, by their place in the list parseString goes
\* through: the configured ones, then the built-in ones.
LayoutsTried == GetStringSlice(config, configParseTimePatterns) \o builtinFormats
LayoutHits == {i \in 1..Len(LayoutsTried) : timeParse(LayoutsTried[i], ts).ok}
FirstHit == CHOOSE i \in LayoutHits : \A j \in LayoutHits : i <= j

\* C1: parseString returns one value of one of the five kinds: the time of
\* the first layout (configured, then built-in) that parses the text; else
\* the integer when the integer parse succeeds; else the boolean; else a
\* float; else the text itself. A text both the integer and the boolean
\* parser accept, such as "1" or "0", comes back as an integer.
InferPrecedence ==
  ret.called =>
    /\ ret.val.kind \in Kinds
    /\ IF LayoutHits # {}
       THEN SameValue(ret.val, TimeV(timeParse(LayoutsTried[FirstHit], ts).val))
       ELSE IF ParseInt(ts).ok THEN SameValue(ret.val, IntV(ParseInt(ts).val))
       ELSE IF ParseBool(ts).ok THEN SameValue(ret.val, BoolV(ParseBool(ts).val))
       ELSE IF ParseFloat(ts).ok THEN ret.val.kind = "float"
       ELSE SameValue(ret.val, TextV(ts))
    /\ (LayoutHits = {} /\ ParseInt(ts).ok /\ ParseBool(ts).ok => ret.val.kind = "int")

\* "1" has been given to parseString: the integer and the boolean parser
\* both accept it, and an integer came back.
InferIntOverBool ==
  /\ ret.called
  /\ ts = <<"1">>
  /\ ParseInt(ts).ok /\ ParseBool(ts).ok
  /\ ret.val.kind = "int"

\* C2: no value parseString returns is NaN, and a text that only the float
\* parse accepts, with NaN as its result, comes back as the float zero.
InferNeverNaN ==
  ret.called =>
    /\ ret.val.kind = "float" => ~IsNaN(ret.val.val)
    /\ (/\ LayoutHits = {} /\ ~ParseInt(ts).ok /\ ~ParseBool(ts).ok
        /\ ParseFloat(ts).ok /\ IsNaN(ParseFloat(ts).val))
       => SameValue(ret.val, FloatV(Zero(FALSE)))

\* "NaN" has been given to parseString and the float zero came back.
InferNaNIsZero ==
  /\ ret.called
  /\ ts = <<"N", "a", "N">>
  /\ IsNaN(ParseFloat(ts).val)
  /\ SameValue(ret.val, FloatV(Zero(FALSE)))

(***************************************************************************)
(* newKeyName on its own: any candidate, against any event whose keys are  *)
(* candidates with up to MaxUnderscores underscores before them.           *)
(***************************************************************************)
MaxUnderscores == 2

RECURSIVE Underscores(_, _)
Underscores(n, s) == IF n = 0 THEN s ELSE <<"_">> \o Underscores(n - 1, s)

BaseNames == {<<"a">>, <<"u", "r", "i">>}
KeyNames == {Underscores(n, b) : n \in 0..MaxUnderscores, b \in BaseNames}
KeyEvents == UNION {[S -> {TextV(<<>>)}] : S \in SUBSET KeyNames}

CallNewKeyName ==
  /\ \E kk \in KeyNames :
       /\ cand' = kk
       /\ name' = Got(newKeyName(kk, fields))
  /\ UNCHANGED <<fields, workerVars, inferVars, parseVars, pipeVars>>

InitKey ==
  /\ config = NoConfig
  /\ regex = Nil
  /\ InferIdle /\ ParseIdle /\ PipeIdle
  /\ cand = <<>> /\ name = None
  /\ fields \in KeyEvents

NextKey == CallNewKeyName

SpecKey == InitKey /\ [][NextKey]_vars

\* C3: newKeyName returns a name that is no key of the event: the candidate
\* when it is no key, and else the candidate behind the least number n >= 1
\* of underscores that makes it one; the event is left as it was.
KeyNameUnique ==
  name.called =>
    /\ name.val \notin DOMAIN fields
    /\ cand \notin DOMAIN fields => name.val = cand
    /\ cand \in DOMAIN fields =>
         \E n \in 1..Cardinality(DOMAIN fields) :
           /\ name.val = Underscores(n, cand)
           /\ \A j \in 1..(n - 1) : Underscores(j, cand) \in DOMAIN fields

\* The candidate and the candidate behind one underscore are both keys, and
\* the candidate behind two underscores came back.
KeyNameTwoUnderscores ==
  /\ name.called
  /\ cand \in DOMAIN fields
  /\ Underscores(1, cand) \in DOMAIN fields
  /\ name.val = Underscores(2, cand)

(***************************************************************************)
(* ParseEvents on its own: any line of Lines, under any pattern of         *)
(* Patterns and any list of keys to ignore of IgnoreLists; worker.regex is *)
(* what Init leaves.                                                       *)
(***************************************************************************)
AccessPattern == <<Group(<<"i", "p">>, "nonspace"), Group(<<"m", "e", "t", "h", "o", "d">>, "nonspace"),
                   Group(uriName, "nonspace"), Group(<<"s", "t", "a", "t", "u", "s">>, "digits")>>
UriStatusPattern == <<Group(uriName, "nonspace"), Group(<<"s", "t", "a", "t", "u", "s">>, "digits")>>
StatusUriPattern == <<Group(<<"s", "t", "a", "t", "u", "s">>, "digits"), Group(uriName, "nonspace")>>
TwicePattern == <<Group(<<"a">>, "nonspace"), Group(<<"a">>, "nonspace")>>
FieldUriPattern == <<Group(<<"a">>, "nonspace"), Group(uriName, "nonspace")>>
UnnamedPattern == <<Group(<<>>, "nonspace"), Group(uriName, "nonspace")>>
\* a pattern with a parenthesis left open
BrokenPattern == <<Group(<<"a">>, "unclosed")>>

Patterns == {<<>>, AccessPattern, UriStatusPattern, StatusUriPattern, TwicePattern,
             FieldUriPattern, UnnamedPattern, BrokenPattern}

IgnoreLists == {<<>>, << <<"q">> >>, <<uriName>>,
                << <<"_", "s", "t", "a", "t", "u", "s">>, <<"l", "a", "n", "g">> >>}

ParseConfigs ==
  {With(With(NoConfig, configParsePattern, p), configParseKeysToIgnore, ig) :
     p \in Patterns, ig \in IgnoreLists}

AccessLine == <<"1", "0", ".", "0", ".", "0", ".", "1", " ", "G", "E", "T", " ", "/", "s", "e", "a", "r", "c", "h", "?", "q", "=", "5", "&", "l", "a", "n", "g", "=", "e", "n", " ", "2", "0", "0">>

Lines == {
  <<"1", "0", ".", "0", ".", "0", ".", "1", " ", "G", "E", "T", " ", "/", "s", "e", "a", "r", "c", "h", "?", "q", "=", "5", "&", "l", "a", "n", "g", "=", "e", "n", " ", "2", "0", "0">>,
  <<"1", "0", ".", "0", ".", "0", ".", "1", " ", "G", "E", "T", " ", "/", "s", "?", "q", "=", "5", "&", "q", "=", "6", "&", "l", "a", "n", "g", "=", "e", "n", " ", "2", "0", "0">>,
  <<"1", "0", ".", "0", ".", "0", ".", "1", " ", "G", "E", "T", " ", "/", "s", "%", "z", "z", "?", "q", "=", "5", " ", "2", "0", "0">>,
  <<"1", "0", ".", "0", ".", "0", ".", "1", " ", "G", "E", "T", " ", "/", "s", " ", "2", "0", "x">>,
  <<"/", "x", "?", "s", "t", "a", "t", "u", "s", "=", "5", " ", "2", "0", "0">>,
  <<"2", "0", "0", " ", "/", "x", "?", "s", "t", "a", "t", "u", "s", "=", "5">>,
  <<"2", "0", "0", " ", "/", "p", "?", "s", "t", "a", "t", "u", "s", "=", "1", "&", "_", "s", "t", "a", "t", "u", "s", "=", "2">>,
  <<"1", " ", "2">>, <<"7", " ", "/", "p", "?", "a", "=", "1", "&", "_", "a", "=", "2">>,
  <<"t", " ", "/", "p", "#", "f", "?", "q", "=", "1">>,
  <<"2", "0", "0", " ", "/", "p", "?", "=", "5", "&", "q", "&", "r", "=", "%", "z", "z", "&", "t", "=", "t", "r", "u", "e">>,
  <<"2", "0", "0", " ", "/", "p", "?", "a", "%", "5", "F", "b", "=", "1", "+", "2", "&", "u", "r", "i", "=", "N", "a", "N">>,
  <<>>, <<"x">>, <<"1", " ", " ", "2">>}

CallParseEvents ==
  /\ \E ln \in Lines :
       /\ line' = ln
       /\ \E o \in ParseEvents(ln, regex, config) : result' = Got(o)
  /\ UNCHANGED <<workerVars, inferVars, keyVars, pipeVars>>

InitParse ==
  /\ config \in ParseConfigs
  /\ regex = workerInit(Nil, config)
  /\ InferIdle /\ KeyIdle /\ ParseIdle /\ PipeIdle

NextParse == CallParseEvents

SpecParse == InitParse /\ [][NextParse]_vars

\* ParseEvents has returned an event.
ReturnedEvent == result.called /\ ~result.val.panic /\ ~result.val.err

KeysToIgnore == GetStringSlice(config, configParseKeysToIgnore)

\* C4: no key of an event ParseEvents returns is the empty string or one
\* of the keys to ignore, from a capture group or from the query of the uri.
NoIgnoredKey ==
  ReturnedEvent =>
    \A f \in DOMAIN result.val.v : f # <<>> /\ ~sliceContains(KeysToIgnore, f)

\* The query key status met the field status, was renamed _status, which
\* is a key to ignore, and was left out: the event has the two groups only.
IgnoredAfterRenaming ==
  /\ ReturnedEvent
  /\ regex = [groups |-> StatusUriPattern]
  /\ line = <<"2", "0", "0", " ", "/", "x", "?", "s", "t", "a", "t", "u", "s", "=", "5">>
  /\ sliceContains(KeysToIgnore, <<"_", "s", "t", "a", "t", "u", "s">>)
  /\ DOMAIN result.val.v = {<<"s", "t", "a", "t", "u", "s">>, uriName}

\* What the pattern captured in the line, and under which names.
Match == FindStringSubmatch(regex, line).val
Names == SubexpNames(regex)
Kept == {i \in 1..Len(Names) : ~shouldIgnore(Names[i], config)}
Parsed(s) == parseString(s, config)

\* The name n behind no, one or more underscores.
Family(n) == {Underscores(j, n) : j \in 0..Cardinality(DOMAIN result.val.v)}

\* The event holds the values x and y under two names of the family of n.
HoldsBoth(n, x, y) ==
  \E f1, f2 \in Family(n) \cap DOMAIN result.val.v :
    f1 # f2 /\ SameValue(result.val.v[f1], x) /\ SameValue(result.val.v[f2], y)

\* The query of the text s, as ParseURI reads it: empty when s does not parse.
QueryOf(s) == IF s # <<>> /\ urlParse(s).ok THEN Query(urlParse(s).val) ELSE EmptyEvent

\* C6: storing a capture group never overwrites a field of the event: of
\* two groups with one name, and of a group that follows the uri group and
\* has the name of one of its query keys, both values are in the event
\* ParseEvents returns, the later one behind underscores.
GroupStoresNeverOverwrite ==
  ReturnedEvent /\ regex.groups # <<>> =>
    \A i, j \in Kept :
      i < j =>
        /\ Names[i] = Names[j] => HoldsBoth(Names[j], Parsed(Match[i]), Parsed(Match[j]))
        /\ Names[i] = uriName /\ Names[j] \in DOMAIN QueryOf(Match[i]) =>
             HoldsBoth(Names[j], Parsed(QueryOf(Match[i])[Names[j]][1]), Parsed(Match[j]))

\* The case of C7: the groups have names, all different and none to ignore,
\* one of them uri; no key of its query is to ignore or the name of a group.
GroupNames == {Names[i] : i \in 2..Len(Names)}
UriText == Match[CHOOSE i \in 2..Len(Names) : Names[i] = uriName]
SimpleCase ==
  /\ ReturnedEvent /\ regex.groups # <<>>
  /\ \A i, j \in 2..Len(Names) : i # j => Names[i] # Names[j]
  /\ \A i \in 2..Len(Names) : ~shouldIgnore(Names[i], config)
  /\ uriName \in GroupNames
  /\ \A kk \in DOMAIN QueryOf(UriText) : ~shouldIgnore(kk, config) /\ kk \notin GroupNames

\* The event of the access line under the access pattern.
AccessEvent ==
  LET v == result.val.v
  IN /\ DOMAIN v = {<<"i", "p">>, <<"m", "e", "t", "h", "o", "d">>, <<"u", "r", "i">>, <<"s", "t", "a", "t", "u", "s">>, <<"q">>, <<"l", "a", "n", "g">>}
     /\ SameValue(v[<<"i", "p">>], TextV(<<"1", "0", ".", "0", ".", "0", ".", "1">>))
     /\ SameValue(v[<<"m", "e", "t", "h", "o", "d">>], TextV(<<"G", "E", "T">>))
     /\ SameValue(v[uriName], TextV(<<"/", "s", "e", "a", "r", "c", "h", "?", "q", "=", "5", "&", "l", "a", "n", "g", "=", "e", "n">>))
     /\ SameValue(v[<<"s", "t", "a", "t", "u", "s">>], IntV([neg |-> FALSE, digits |-> <<"2", "0", "0">>]))
     /\ SameValue(v[<<"q">>], IntV([neg |-> FALSE, digits |-> <<"5">>]))
     /\ SameValue(v[<<"l", "a", "n", "g">>], TextV(<<"e", "n">>))

\* C7: in that case the event has one field per group, with parseString of
\* the text the group captured, and one field per key of the query of the
\* uri, beside the others, with parseString of the first value of the key,
\* and no other field. The access line gives ip, method, uri and lang as
\* text and status = 200 and q = 5 as integers.
SimpleLineEvent ==
  SimpleCase =>
    /\ DOMAIN result.val.v = GroupNames \cup DOMAIN QueryOf(UriText)
    /\ \A i \in 2..Len(Names) : SameValue(result.val.v[Names[i]], Parsed(Match[i]))
    /\ \A kk \in DOMAIN QueryOf(UriText) :
         SameValue(result.val.v[kk], Parsed(QueryOf(UriText)[kk][1]))
    /\ (line = AccessLine /\ regex.groups = AccessPattern => AccessEvent)

\* A line whose query gives q twice: the event has q = 5, the first value.
FirstValueOnly ==
  /\ SimpleCase
  /\ line = <<"1", "0", ".", "0", ".", "0", ".", "1", " ", "G", "E", "T", " ", "/", "s", "?", "q", "=", "5", "&", "q", "=", "6", "&", "l", "a", "n", "g", "=", "e", "n", " ", "2", "0", "0">>
  /\ Len(QueryOf(UriText)[<<"q">>]) = 2
  /\ SameValue(result.val.v[<<"q">>], IntV([neg |-> FALSE, digits |-> <<"5">>]))


(***************************************************************************)
(* convertConfig on its own: any setting of the tail options, the option   *)
(* names the code reads and the ones the documentation gives.              *)
(***************************************************************************)
TailOptions == {"tail.from_beginning", "tail.from_beginng", "tail.reopen", configTailReopen}
OptionValues == {Unset, Set(TRUE), Set(FALSE)}
TailConfigs ==
  {[key \in ConfigKeys |-> IF key \in TailOptions THEN o[key] ELSE Unset] :
     o \in [TailOptions -> OptionValues]}

CallConvertConfig ==
  /\ tailConfig = None
  /\ tailConfig' = Got(convertConfig(config))
  /\ UNCHANGED <<workerVars, inferVars, keyVars, parseVars, inputFile, canTail, tail, tailer,
                 startPC, stoppedAt, readLog, senders, sinkVars>>

InitTail ==
  /\ config \in TailConfigs
  /\ regex = Nil
  /\ InferIdle /\ KeyIdle /\ ParseIdle /\ PipeIdle

NextTail == CallConvertConfig

SpecTail == InitTail /\ [][NextTail]_vars

\* C10: the tail configuration starts at the start of the file exactly when
\* the option tail.from_beginning is true, and follows the file always.
StartPositionPolicy ==
  tailConfig.called =>
    /\ tailConfig.val.Location = "start" <=> GetBool(config, "tail.from_beginning")
    /\ tailConfig.val.Follow

\* C11: the tail configuration reopens a rotated file exactly when the
\* option tail.reopen is true.
ReopenPolicy ==
  tailConfig.called => (tailConfig.val.ReOpen <=> GetBool(config, "tail.reopen"))

(***************************************************************************)
(* The pipeline: a LogParser on an input file that grows, and a FileWorker *)
(* on the channel. A panic in LogParser.Start ends the process, and with   *)
(* it every goroutine.                                                     *)
(***************************************************************************)
MaxLines == 2

MatchingLine == <<" ", "/", "a", "?", "q", "=", "1", " ", "2", "0", "0">>
OtherLine == <<"o", "o", "p", "s">>
InfiniteLine == <<"/", "b", "?", "f", "=", "i", "n", "f", " ", "2", "0", "0">>
SecondLine == <<"/", "c", " ", "4", "0", "4">>
InputLines == {MatchingLine, SecondLine, OtherLine, InfiniteLine}

PipeConfigs ==
  {[NoConfig EXCEPT ![configParsePattern] = Set(p), !["tail.from_beginning"] = fb] :
     p \in {UriStatusPattern, BrokenPattern}, fb \in {Unset, Set(TRUE)}}

Running == startPC # "panicked"

\* The file grows by a line.
AppendLine ==
  /\ Running
  /\ Len(inputFile) < MaxLines
  /\ \E ln \in InputLines : inputFile' = Append(inputFile, ln)
  /\ UNCHANGED <<workerVars, inferVars, keyVars, parseVars, tailConfig, canTail, tail, tailer,
                 startPC, stoppedAt, readLog, senders, sinkVars>>

\* A Start that goes on to the loop whether TailFile failed or not.
LogParserStartAnyway ==
  /\ startPC = "idle"
  /\ regex' = workerInit(regex, config)
  /\ tailConfig' = Got(convertConfig(config))
  /\ tail' = TailFile(inputFile, convertConfig(config))
  /\ startPC' = "opened"
  /\ UNCHANGED <<config, inferVars, keyVars, parseVars, inputFile, canTail, tailer, stoppedAt,
                 readLog, senders, sinkVars>>

\* Start, up to the tailer it has made: Init, convertConfig and TailFile.
LogParserStart ==
  /\ startPC = "idle"
  /\ regex' = workerInit(regex, config)
  /\ tailConfig' = Got(convertConfig(config))
  /\ IF canTail
     THEN tail' = TailFile(inputFile, convertConfig(config)) /\ startPC' = "opened"
     ELSE tail' = tail /\ startPC' = "returned"
  /\ UNCHANGED <<config, inferVars, keyVars, parseVars, inputFile, canTail, tailer, stoppedAt,
                 readLog, senders, sinkVars>>

\* worker.tailer = t
StoreTailer ==
  /\ startPC = "opened"
  /\ tailer' = Got("t")
  /\ startPC' = "loop"
  /\ UNCHANGED <<workerVars, inferVars, keyVars, parseVars, tailConfig, inputFile, canTail, tail,
                 stoppedAt, readLog, senders, sinkVars>>

\* How a call of ParseEvents ended.
how(o) == IF o.panic THEN "panic" ELSE IF o.err THEN "error" ELSE "event"

\* One turn of the loop over t.Lines: the next line of the file, trimmed
\* and parsed, and the goroutine that sends its event.
ReadLine ==
  /\ startPC = "loop"
  /\ tail.alive
  /\ tail.pos < Len(inputFile)
  /\ LET id == tail.pos + 1
         s == TrimSpace(inputFile[id])
     IN \E o \in ParseEvents(s, regex, config) :
          /\ tail' = [tail EXCEPT !.pos = id]
          /\ IF o.panic
             THEN /\ startPC' = "panicked"
                  /\ senders' = senders
                  /\ readLog' = Append(readLog, [id |-> id, how |-> how(o), sent |-> 0])
             ELSE /\ startPC' = startPC
                  /\ senders' = senders \cup spawn(id, o)
                  /\ readLog' = Append(readLog, [id |-> id, how |-> how(o),
                                                 sent |-> Cardinality(spawn(id, o))])
  /\ UNCHANGED <<workerVars, inferVars, keyVars, parseVars, tailConfig, inputFile, canTail,
                 tailer, stoppedAt, sinkVars>>

\* t.Lines is closed once the tailer is stopped, and the loop ends.
LinesClosed ==
  /\ startPC = "loop"
  /\ ~tail.alive
  /\ startPC' = "returned"
  /\ UNCHANGED <<workerVars, inferVars, keyVars, parseVars, tailConfig, inputFile, canTail, tail,
                 tailer, stoppedAt, readLog, senders, sinkVars>>

\* A Stop that ends the FileWorker's loop as well.
LogParserStopAll ==
  /\ Running
  /\ startPC # "idle"
  /\ stoppedAt = -1
  /\ stoppedAt' = Len(inputFile)
  /\ tail' = IF tailer # None THEN [tail EXCEPT !.alive = FALSE] ELSE tail
  /\ workPC' = IF workPC = "running" THEN "returned" ELSE workPC
  /\ UNCHANGED <<workerVars, inferVars, keyVars, parseVars, tailConfig, inputFile, canTail,
                 tailer, startPC, readLog, senders, QuitChannel, outFileName, out, stopPC,
                 outputName, files, taken>>

\* LogParser.Stop: stops the tailer, if Start has stored one.
LogParserStop ==
  /\ Running
  /\ startPC # "idle"
  /\ stoppedAt = -1
  /\ stoppedAt' = Len(inputFile)
  /\ tail' = IF tailer # None THEN [tail EXCEPT !.alive = FALSE] ELSE tail
  /\ UNCHANGED <<workerVars, inferVars, keyVars, parseVars, tailConfig, inputFile, canTail,
                 tailer, startPC, readLog, senders, sinkVars>>

\* FileWorker.Init
FileWorkerInit ==
  /\ Running
  /\ QuitChannel = Nil
  /\ QuitChannel' = [made |-> TRUE]
  /\ LET h == CachedFileHandle(outFileName, out, outputName)
     IN outFileName' = h.outFileName /\ out' = h.out
  /\ UNCHANGED <<workerVars, inferVars, keyVars, parseVars, tailVars, senders, workPC, stopPC,
                 outputName, files, taken>>

\* FileWorker.Start: go w.Work()
FileWorkerStart ==
  /\ Running
  /\ QuitChannel # Nil
  /\ workPC = "idle"
  /\ workPC' = "running"
  /\ UNCHANGED <<workerVars, inferVars, keyVars, parseVars, tailVars, senders, QuitChannel,
                 outFileName, out, stopPC, outputName, files, taken>>

\* Work, the case of an event on the channel: one of the waiting goroutines
\* hands over its event, which is marshalled and written.
Work ==
  /\ Running
  /\ workPC = "running"
  /\ \E g \in senders :
       LET json == Marshal(g.v)
           h == CachedFileHandle(outFileName, out, outputName)
       IN /\ senders' = senders \ {g}
          /\ taken' = Append(taken, [id |-> g.id, ok |-> json.ok, stop |-> stopPC,
                                     path |-> ConfiguredFileOutputName(outputName),
                                     to |-> IF json.ok /\ h.out # Nil /\ ~h.out.closed
                                            THEN h.out.path ELSE ""])
          /\ IF json.ok
             THEN /\ outFileName' = h.outFileName
                  /\ out' = h.out
                  /\ files' = WriteLine(files, h.out, json.val)
             ELSE UNCHANGED <<outFileName, out, files>>
  /\ UNCHANGED <<workerVars, inferVars, keyVars, parseVars, tailVars, QuitChannel, workPC,
                 stopPC, outputName>>

\* FileWorker.Stop, up to the send on the quit channel; a call begins when
\* no other call is under way.
FileWorkerStop ==
  /\ Running
  /\ QuitChannel # Nil
  /\ stopPC \in {"idle", "returned"}
  /\ LET h == CachedFileHandle(outFileName, out, outputName)
     IN /\ outFileName' = h.outFileName
        /\ out' = IF h.out # Nil THEN [h.out EXCEPT !.closed = TRUE] ELSE h.out
  /\ stopPC' = "sending"
  /\ UNCHANGED <<workerVars, inferVars, keyVars, parseVars, tailVars, senders, QuitChannel,
                 workPC, outputName, files, taken>>

\* Work, the case of the quit channel: Stop hands over its message, and
\* both return.
WorkQuit ==
  /\ Running
  /\ workPC = "running"
  /\ stopPC = "sending"
  /\ workPC' = "returned"
  /\ stopPC' = "returned"
  /\ UNCHANGED <<workerVars, inferVars, keyVars, parseVars, tailVars, senders, QuitChannel,
                 outFileName, out, outputName, files, taken>>

Init ==
  /\ config \in PipeConfigs
  /\ regex = Nil
  /\ InferIdle /\ KeyIdle /\ ParseIdle
  /\ tailConfig = None /\ inputFile = <<>> /\ canTail \in BOOLEAN /\ tail = Nil /\ tailer = None
  /\ startPC = "idle" /\ stoppedAt = -1 /\ readLog = <<>> /\ senders = {}
  /\ QuitChannel = Nil /\ outFileName = "" /\ out = Nil /\ workPC = "idle"
  /\ stopPC = "idle" /\ outputName = Unset /\ files = [f \in Paths |-> <<>>]
  /\ taken = <<>>

Next ==
  \/ AppendLine
  \/ LogParserStart
  \/ StoreTailer
  \/ ReadLine
  \/ LinesClosed
  \/ LogParserStop
  \/ FileWorkerInit
  \/ FileWorkerStart
  \/ Work
  \/ FileWorkerStop
  \/ WorkQuit

Spec == Init /\ [][Next]_vars


\* Whether the i-th line of the file, trimmed, matches the compiled pattern.
Matches(i) == regex # Nil /\ FindStringSubmatch(regex, TrimSpace(inputFile[i])).ok

RECURSIVE TotalSent(_)
TotalSent(log) == IF log = <<>> THEN 0 ELSE log[1].sent + TotalSent(Tail(log))

\* C5: a line that does not match ends ParseEvents with an error, nothing
\* is sent for it and the loop takes the line after it; a line that matches
\* has one event sent; so the events sent are as many as the lines read
\* that matched.
UnmatchedLineDropped ==
  /\ \A k \in 1..Len(readLog) :
       /\ readLog[k].id = tail.from + k
       /\ regex # Nil /\ ~Matches(readLog[k].id) =>
            readLog[k].how = "error" /\ readLog[k].sent = 0
       /\ regex # Nil /\ Matches(readLog[k].id) =>
            readLog[k].how = "event" /\ readLog[k].sent = 1
  /\ TotalSent(readLog) = Cardinality({k \in 1..Len(readLog) : Matches(readLog[k].id)})
  /\ readLog # <<>> /\ readLog[Len(readLog)].how = "error" =>
       startPC = "loop" \/ (startPC = "returned" /\ ~tail.alive)

\* A line that did not match was read and dropped, and the line after it
\* was read and had its event sent.
UnmatchedThenMatched ==
  /\ Len(readLog) = 2
  /\ readLog[1].how = "error" /\ readLog[1].sent = 0
  /\ readLog[2].how = "event" /\ readLog[2].sent = 1
  /\ \E g \in senders : g.id = 2

\* The texts the output file may hold for the i-th line of the input file.
Expected(i) ==
  LET ms == {Marshal(o.v) : o \in ParseEvents(TrimSpace(inputFile[i]), regex, config)}
  IN {m.val : m \in {x \in ms : x.ok}}

Bijections(n) == {f \in [1..n -> 1..n] : \A i, j \in 1..n : f[i] = f[j] => i = j}

\* LogParser.Start tailed the file from its first line, every line of the
\* file matches, LogParser.Stop ran after the last line was appended, Start
\* has returned and no goroutine waits to send; the FileWorker is at work.
DeliveryDone ==
  /\ workPC = "running" /\ stopPC = "idle"
  /\ canTail /\ startPC = "returned" /\ tail.from = 0
  /\ inputFile # <<>> /\ stoppedAt = Len(inputFile)
  /\ \A i \in 1..Len(inputFile) : Matches(i)
  /\ senders = {}

\* C8: once the lines were appended and the LogParser stopped, and all that
\* was read has been handed over, the output file holds one JSON object for
\* each line appended, each once.
EndToEndDelivery ==
  DeliveryDone =>
    LET written == files[DefaultOutputName]
    IN /\ Len(written) = Len(inputFile)
       /\ \E f \in Bijections(Len(inputFile)) :
            \A i \in 1..Len(inputFile) : written[f[i]] \in Expected(i)

\* C9: after a pattern that did not compile, Start does not panic, every
\* line it reads ends ParseEvents with the error, and nothing is sent.
BrokenPatternHarmless ==
  tailConfig.called /\ regex = Nil =>
    /\ startPC # "panicked"
    /\ \A k \in 1..Len(readLog) : readLog[k].how = "error" /\ readLog[k].sent = 0


\* C12: when the input file cannot be opened, Start returns at once: no
\* tail is made and none is stored, no line is read, nothing is sent or
\* taken, and Stop finds no tailer and changes nothing.
FailedOpenNoWork ==
  ~canTail =>
    /\ startPC \in {"idle", "returned"}
    /\ tailConfig.called => startPC = "returned"
    /\ tail = Nil /\ tailer = None
    /\ readLog = <<>> /\ senders = {} /\ taken = <<>>

\* The file could not be opened, Start has returned, lines were appended,
\* Stop has run after them, and the FileWorker is at work.
FailedOpenThenStop ==
  /\ ~canTail /\ startPC = "returned"
  /\ inputFile # <<>> /\ stoppedAt = Len(inputFile)
  /\ workPC = "running"


(***************************************************************************)
(* The FileWorker on its own: events arrive on its channel from any        *)
(* sender, and the option file.output changes while it works.              *)
(***************************************************************************)
MaxEvents == 2

OutputNames == {Unset, Set("other.jsonl"), Set("/nodir/out.jsonl")}

\* An event that json.Marshal writes and one it cannot write.
SinkEvents ==
  {Put(EmptyEvent, <<"q">>, parseString(<<"1">>, NoConfig)),
   Put(EmptyEvent, <<"f">>, parseString(<<"i", "n", "f">>, NoConfig))}

\* A goroutine starts to send an event on the channel.
Publish ==
  /\ Len(taken) + Cardinality(senders) < MaxEvents
  /\ \E v \in SinkEvents :
       senders' = senders \cup {[id |-> Len(taken) + Cardinality(senders) + 1, v |-> v]}
  /\ UNCHANGED <<workerVars, inferVars, keyVars, parseVars, tailVars, sinkVars>>

\* The option file.output is set anew.
SetOutput ==
  /\ \E o \in OutputNames : o # outputName /\ outputName' = o
  /\ UNCHANGED <<workerVars, inferVars, keyVars, parseVars, tailVars, senders, QuitChannel,
                 outFileName, out, workPC, stopPC, files, taken>>

InitSink ==
  /\ config = NoConfig
  /\ regex = Nil
  /\ InferIdle /\ KeyIdle /\ ParseIdle /\ PipeIdle

NextSink ==
  \/ Publish
  \/ SetOutput
  \/ FileWorkerInit
  \/ FileWorkerStart
  \/ Work
  \/ FileWorkerStop
  \/ WorkQuit

SpecSink == InitSink /\ [][NextSink]_vars

\* C13: before any Stop, every event that was marshalled is written to the
\* file at the path configured when it was taken, and to no file when that
\* path cannot be opened.
WriteAtConfiguredPath ==
  \A k \in 1..Len(taken) :
    taken[k].ok /\ taken[k].stop = "idle" =>
      taken[k].to = IF taken[k].path \in UnopenablePaths THEN "" ELSE taken[k].path

\* C18: before Stop is called, whenever the cached name is the configured
\* path, CachedFileHandle returns an open handle on that path.
CachedHandleOpen ==
  stopPC = "idle" /\ outFileName = ConfiguredFileOutputName(outputName) =>
    LET h == CachedFileHandle(outFileName, out, outputName).out
    IN h # Nil /\ ~h.closed /\ h.path = outFileName


\* C19: every event Work took and marshalled is written to the output
\* file, also when it was taken after Stop had closed the handle.
TakenIsWritten ==
  \A k \in 1..Len(taken) : taken[k].ok => taken[k].to = taken[k].path

\* C20: a call of Stop does not wait on the quit channel once Work has
\* returned, when nothing is left to receive from it.
StopNotStuck == ~(stopPC = "sending" /\ workPC = "returned")


\* Work can take an event; the read loop can take a line.
CanTake == Running /\ workPC = "running" /\ senders # {}
CanRead == startPC = "loop" /\ tail.alive /\ tail.pos < Len(inputFile)

\* C14: LogParser.Stop changes nothing of the FileWorker nor of the events
\* that wait to be sent, and an event Work could take it still can;
\* FileWorker.Stop, in both its steps, changes nothing of the LogParser,
\* and a line the loop could read it still can.
LifecycleIndependent ==
  /\ [][LogParserStop => UNCHANGED <<sinkVars, senders>> /\ (CanTake => CanTake')]_vars
  /\ [][FileWorkerStop \/ WorkQuit => UNCHANGED <<workerVars, tailVars>> /\ (CanRead => CanRead')]_vars

\* Both Stops have been called: the tailer is stopped, FileWorker.Stop
\* waits to hand over its message, and Work still runs with an event, of a
\* line that was read, waiting for it.
BothStopped ==
  /\ stoppedAt >= 1 /\ tailer # None /\ ~tail.alive
  /\ stopPC = "sending" /\ workPC = "running"
  /\ readLog # <<>> /\ senders # {}


\* C15: once Stop has returned, the tail Start reads from is stopped, so
\* that the loop over its lines ends.
StopEndsLoop ==
  stoppedAt # -1 /\ startPC \in {"opened", "loop"} => ~tail.alive

\* The lines that were read and parsed to an event.
EventLines == {readLog[k].id : k \in {j \in 1..Len(readLog) : readLog[j].how = "event"}}
TakenLines == {taken[k].id : k \in 1..Len(taken)}

\* C16: the loop reads the lines in the order of the file, and every line
\* parsed to an event has a send of its own, which waits or has been taken
\* by Work, and by Work once.
ReadInFileOrder ==
  /\ \A k \in 1..Len(readLog) : readLog[k].id = tail.from + k
  /\ tail # Nil => tail.pos = tail.from + Len(readLog)
  /\ EventLines = {g.id : g \in senders} \cup TakenLines
  /\ {g.id : g \in senders} \cap TakenLines = {}
  /\ Cardinality(TakenLines) = Len(taken)
  /\ Cardinality(senders) = Cardinality({g.id : g \in senders})

\* Two lines that match were appended and read in that order, and Work
\* took and wrote the event of the second before the event of the first.
TakenOutOfOrder ==
  /\ inputFile = <<MatchingLine, SecondLine>>
  /\ Len(readLog) = 2 /\ readLog[1].id = 1 /\ readLog[2].id = 2
  /\ Len(taken) = 2 /\ taken[1].id = 2 /\ taken[2].id = 1
  /\ Len(files[DefaultOutputName]) = 2
  /\ files[DefaultOutputName][1] \in Expected(2)
  /\ files[DefaultOutputName][2] \in Expected(1)

\* C17: ParseEvents returns the same event whatever the order in which the
\* query of the uri is visited.
ParseDeterministic ==
  result.called => Cardinality(ParseEvents(line, regex, config)) = 1

====
